---- MODULE Spec2Model ----
(***************************************************************************)
(* Model of the FM kick-drum voice engine (class Synth, src/synth.h) and   *)
(* of the unit header's parameter table (src/header.c).                    *)
(*                                                                         *)
(* Number representation.  The engine computes in 32-bit floats; the model *)
(* uses fixed point:                                                       *)
(*   - fields that receive an integer as is (pitch_, decay_, attack_,      *)
(*     release_, click_freq_, click_decay_, osc2_decay_) hold that integer;*)
(*   - ratios, levels and audio signals are in units of 1/Milli;           *)
(*   - the four envelopes and the three phase accumulators are in units of *)
(*     1/EnvOne, EnvOne = Milli * k_samplerate, so that a decrement of     *)
(*     1/(ms/1000*48000) and a phase step of f/48000 keep their size;      *)
(*   - frequencies are in 1/Milli Hz, which is one phase unit per sample.  *)
(* std::sin and std::tanh are replaced by bounded piecewise-rational       *)
(* approximations, std::rand by a choice among RandValues.  A float        *)
(* division by zero (+infinity) is the value Infinity.                     *)
(***************************************************************************)
EXTENDS Integers, Sequences, FiniteSets, TLC

VARIABLES synth, out, call, samples, sets, loads, query, twin

vars == <<synth, out, call, samples, sets, loads, query, twin>>

(*------------------------------- constants ------------------------------*)

k_samplerate == 48000

k_wave_sine == 0
k_wave_saw == 1
k_wave_triangle == 2
k_wave_pulse == 3
k_wave_noise == 4
k_num_waves == 5

s_waveform_names == <<"Sine", "Saw", "Triangle", "Pulse", "Noise">>

k_param_pitch == 0
k_param_decay == 1
k_param_body_level == 2
k_param_drive == 3
k_param_attack == 4
k_param_release == 5
k_param_pitch_curve == 6
k_param_click_level == 7
k_param_click_freq == 8
k_param_click_decay == 9
k_param_click_tone == 10
k_param_filter_enabled == 11
k_param_filter_cutoff == 12
k_param_filter_resonance == 13
k_param_filter_mode == 14
k_param_osc2_enabled == 15
k_param_osc2_waveform == 16
k_param_osc2_pitch == 17
k_param_osc2_level == 18
k_param_fm_amount == 19
k_param_fm_ratio == 20
k_param_osc2_decay == 21

k_preset_basic == 0
k_preset_punchy == 1
k_preset_sub == 2
k_preset_fm_kick == 3
k_preset_noise_attack == 4

k_state_off == 0
k_state_attack == 1
k_state_decay == 2
k_state_release == 3

(* 0xFF, the note GateOn/GateOff/AllNoteOff pass and NoteOff accepts for   *)
(* any sounding note.                                                      *)
NoteWildcard == 255

(*---------------------------- number helpers ----------------------------*)

(* the fixed-point scale of ratios, levels and signals *)
Milli == 10 * 10 * 10
EnvOne == Milli * k_samplerate
Infinity == 2000 * 1000 * 1000

U8(v) == v % 256

FMul(a, b) == (a * b) \div Milli

FDiv(a, b) == (a * Milli) \div b

ToMilli(e) == e \div (EnvOne \div Milli)

(* value / 100.f *)
Percent(value) == (value * Milli) \div 100

(* value / 10.f *)
Tenths(value) == (value * Milli) \div 10

Abs(x) == IF x < 0 THEN -x ELSE x

(* 1.f / (ms / 1000.f * k_samplerate), in envelope units *)
EnvStep(ms) ==
  LET n == (ms * k_samplerate) \div 1000
  IN  IF n = 0 THEN Infinity ELSE EnvOne \div n

(* std::sin(phase * k_twopi): one parabola per half period *)
waveformSine(phase) ==
  LET m == ToMilli(phase % EnvOne)
  IN  IF m < 500 THEN (16 * m * (500 - m)) \div Milli
      ELSE -((16 * (m - 500) * (1000 - m)) \div Milli)

waveformSaw(phase) == 2 * ToMilli(phase) - Milli

waveformTriangle(phase) ==
  LET ramp == 2 * ToMilli(phase) - Milli
  IN  2 * (Abs(ramp) - 500)

waveformPulse(phase, width) == IF ToMilli(phase) < width THEN Milli ELSE -Milli

(* ((std::rand() & 0xFFFF) / 32768.0f) * 2.0f - 1.0f, r the value of rand() *)
waveformNoise(r) == 2 * (((r % 65536) * Milli) \div 32768) - Milli

(* std::tanh: Pade approximant x(27+x^2)/(27+9x^2) on [-3,3], +-1 outside *)
Tanh(x) ==
  IF x >= 3 * Milli THEN Milli
  ELSE IF x <= -(3 * Milli) THEN -Milli
  ELSE LET n == (27 * Milli * Milli + x * x) \div Milli
           d == (27 * Milli * Milli + 9 * x * x) \div Milli
       IN  (x * n) \div d

(*------------------------------ the engine ------------------------------*)

reset(s) ==
  [s EXCEPT !.phase1_ = 0, !.phase2_ = 0, !.click_phase_ = 0,
            !.envelope_ = 0, !.envelope_state_ = k_state_off,
            !.pitch_envelope_ = 0, !.osc2_envelope_ = 0,
            !.current_note_ = 0, !.current_velocity_ = 0,
            !.filter_enabled_ = FALSE, !.filter_mode_24db_ = FALSE,
            !.filter_state_ = <<0, 0, 0, 0>>,
            !.last_noise_ = 0, !.click_envelope_ = 0]

initParams(s) ==
  [s EXCEPT !.pitch_ = 55, !.decay_ = 130, !.click_level_ = 500,
            !.pitch_curve_ = 500, !.body_level_ = 900, !.drive_ = 400,
            !.attack_ = 2, !.release_ = 300,
            !.osc2_enabled_ = 1, !.osc2_waveform_ = k_wave_sine,
            !.osc2_pitch_ = 2000, !.osc2_level_ = 500, !.fm_amount_ = 0,
            !.fm_ratio_ = 2000, !.osc2_decay_ = 100, !.pulse_width_ = 500,
            !.click_freq_ = 200, !.click_decay_ = 20, !.click_tone_ = 600,
            !.filter_enabled_ = FALSE, !.filter_cutoff_ = 700,
            !.filter_resonance_ = 200, !.filter_mode_24db_ = FALSE,
            !.preset_index_ = 0, !.last_noise_ = 0, !.click_envelope_ = 0]

(* The members of Synth; every one is assigned by reset and initParams.   *)
Fields ==
  {"phase1_", "phase2_", "click_phase_", "envelope_", "pitch_envelope_",
   "osc2_envelope_", "click_envelope_", "envelope_state_", "current_note_",
   "current_velocity_", "preset_index_", "pitch_", "decay_", "pitch_curve_",
   "body_level_", "drive_", "attack_", "release_", "click_level_",
   "click_freq_", "click_decay_", "click_tone_", "last_noise_",
   "filter_enabled_", "filter_cutoff_", "filter_resonance_",
   "filter_mode_24db_", "filter_state_", "osc2_enabled_", "osc2_waveform_",
   "osc2_pitch_", "osc2_level_", "fm_amount_", "fm_ratio_", "osc2_decay_",
   "pulse_width_"}

(* Synth(void) { reset(); initParams(); } *)
Synth == initParams(reset([f \in Fields |-> 0]))

(* a trigger that leaves the click envelope and the filter as they were *)
NoteOn_KeepsClick(s, note, velocity) ==
  [s EXCEPT !.current_note_ = note,
            !.current_velocity_ = (velocity * Milli) \div 127,
            !.envelope_state_ = k_state_attack,
            !.envelope_ = 0,
            !.pitch_envelope_ = EnvOne,
            !.osc2_envelope_ = EnvOne]

NoteOn(s, note, velocity) ==
  [s EXCEPT !.current_note_ = note,
            !.current_velocity_ = (velocity * Milli) \div 127,
            !.envelope_state_ = k_state_attack,
            !.envelope_ = 0,
            !.pitch_envelope_ = EnvOne,
            !.osc2_envelope_ = EnvOne,
            !.click_envelope_ = EnvOne,
            !.last_noise_ = 0,
            !.filter_state_ = <<0, 0, 0, 0>>]

(* a note-off that releases whatever the note *)
NoteOff_AnyNote(s, note) == [s EXCEPT !.envelope_state_ = k_state_release]

(* a note-off without the 0xFF wildcard *)
NoteOff_NoWildcard(s, note) ==
  IF note = s.current_note_
  THEN [s EXCEPT !.envelope_state_ = k_state_release]
  ELSE s

NoteOff(s, note) ==
  IF note = s.current_note_ \/ note = NoteWildcard
  THEN [s EXCEPT !.envelope_state_ = k_state_release]
  ELSE s

GateOn(s, velocity) == NoteOn(s, NoteWildcard, velocity)

GateOff(s) == NoteOff(s, NoteWildcard)

AllNoteOff(s) == NoteOff(s, NoteWildcard)

(*----------------------------- presets ----------------------------------*)

(* switch (index) of LoadPreset: the values each preset assigns *)
PresetSwitch(t, index) ==
  CASE
    index = k_preset_basic ->
      [t EXCEPT !.pitch_ = 55, !.decay_ = 130, !.pitch_curve_ = 500,
                !.body_level_ = 900, !.drive_ = 400, !.attack_ = 3,
                !.release_ = 300, !.click_level_ = 500, !.click_freq_ = 200,
                !.click_decay_ = 20, !.click_tone_ = 600, !.filter_enabled_ = FALSE,
                !.filter_cutoff_ = 700, !.filter_resonance_ = 200, !.filter_mode_24db_ = FALSE,
                !.osc2_enabled_ = 0, !.osc2_waveform_ = k_wave_sine, !.osc2_pitch_ = 2000,
                !.osc2_level_ = 0, !.fm_amount_ = 0, !.fm_ratio_ = 2000,
                !.osc2_decay_ = 100]
    []
    index = k_preset_punchy ->
      [t EXCEPT !.pitch_ = 70, !.decay_ = 80, !.pitch_curve_ = 700,
                !.body_level_ = 900, !.drive_ = 600, !.attack_ = 1,
                !.release_ = 180, !.click_level_ = 800, !.click_freq_ = 250,
                !.click_decay_ = 15, !.click_tone_ = 500, !.filter_enabled_ = TRUE,
                !.filter_cutoff_ = 900, !.filter_resonance_ = 300, !.filter_mode_24db_ = FALSE,
                !.osc2_enabled_ = 0, !.osc2_waveform_ = k_wave_sine, !.osc2_pitch_ = 2000,
                !.osc2_level_ = 0, !.fm_amount_ = 0, !.fm_ratio_ = 2000,
                !.osc2_decay_ = 100]
    []
    index = k_preset_sub ->
      [t EXCEPT !.pitch_ = 45, !.decay_ = 250, !.pitch_curve_ = 300,
                !.body_level_ = 950, !.drive_ = 350, !.attack_ = 8,
                !.release_ = 500, !.click_level_ = 300, !.click_freq_ = 180,
                !.click_decay_ = 25, !.click_tone_ = 700, !.filter_enabled_ = TRUE,
                !.filter_cutoff_ = 600, !.filter_resonance_ = 100, !.filter_mode_24db_ = TRUE,
                !.osc2_enabled_ = 0, !.osc2_waveform_ = k_wave_sine, !.osc2_pitch_ = 2000,
                !.osc2_level_ = 0, !.fm_amount_ = 0, !.fm_ratio_ = 2000,
                !.osc2_decay_ = 100]
    []
    index = k_preset_fm_kick ->
      [t EXCEPT !.pitch_ = 55, !.decay_ = 180, !.pitch_curve_ = 600,
                !.body_level_ = 700, !.drive_ = 500, !.attack_ = 3,
                !.release_ = 250, !.click_level_ = 400, !.click_freq_ = 220,
                !.click_decay_ = 18, !.click_tone_ = 800, !.filter_enabled_ = TRUE,
                !.filter_cutoff_ = 850, !.filter_resonance_ = 400, !.filter_mode_24db_ = FALSE,
                !.osc2_enabled_ = 1, !.osc2_waveform_ = k_wave_sine, !.osc2_pitch_ = 3000,
                !.osc2_level_ = 600, !.fm_amount_ = 700, !.fm_ratio_ = 2700,
                !.osc2_decay_ = 80]
    []
    index = k_preset_noise_attack ->
      [t EXCEPT !.pitch_ = 50, !.decay_ = 200, !.pitch_curve_ = 500,
                !.body_level_ = 850, !.drive_ = 400, !.attack_ = 2,
                !.release_ = 280, !.click_level_ = 700, !.click_freq_ = 300,
                !.click_decay_ = 12, !.click_tone_ = 300, !.filter_enabled_ = TRUE,
                !.filter_cutoff_ = 950, !.filter_resonance_ = 300, !.filter_mode_24db_ = FALSE,
                !.osc2_enabled_ = 1, !.osc2_waveform_ = k_wave_noise, !.osc2_pitch_ = 1000,
                !.osc2_level_ = 700, !.fm_amount_ = 0, !.fm_ratio_ = 1000,
                !.osc2_decay_ = 20]
    []
    OTHER -> t

(* a preset load whose cases leave fm_amount_ as it was *)
LoadPreset_KeepsFmAmount(s, index) ==
  [PresetSwitch([s EXCEPT !.preset_index_ = index], index)
     EXCEPT !.fm_amount_ = s.fm_amount_]

LoadPreset(s, index) ==
  PresetSwitch([s EXCEPT !.preset_index_ = index], index)

getPresetIndex(s) == s.preset_index_

(*--------------------------- parameter surface --------------------------*)

setParameter(s, index, value) ==
  CASE index = k_param_pitch -> [s EXCEPT !.pitch_ = value]
    [] index = k_param_decay -> [s EXCEPT !.decay_ = value]
    [] index = k_param_body_level -> [s EXCEPT !.body_level_ = Percent(value)]
    [] index = k_param_drive -> [s EXCEPT !.drive_ = Percent(value)]
    [] index = k_param_attack -> [s EXCEPT !.attack_ = value]
    [] index = k_param_release -> [s EXCEPT !.release_ = value]
    [] index = k_param_pitch_curve -> [s EXCEPT !.pitch_curve_ = Percent(value)]
    [] index = k_param_click_level -> [s EXCEPT !.click_level_ = Percent(value)]
    [] index = k_param_click_freq -> [s EXCEPT !.click_freq_ = value]
    [] index = k_param_click_decay -> [s EXCEPT !.click_decay_ = value]
    [] index = k_param_click_tone -> [s EXCEPT !.click_tone_ = Percent(value)]
    [] index = k_param_filter_enabled -> [s EXCEPT !.filter_enabled_ = (value > 0)]
    [] index = k_param_filter_cutoff -> [s EXCEPT !.filter_cutoff_ = Percent(value)]
    [] index = k_param_filter_resonance ->
         [s EXCEPT !.filter_resonance_ = Percent(value)]
    [] index = k_param_filter_mode -> [s EXCEPT !.filter_mode_24db_ = (value > 0)]
    [] index = k_param_osc2_enabled -> [s EXCEPT !.osc2_enabled_ = U8(value)]
    [] index = k_param_osc2_waveform -> [s EXCEPT !.osc2_waveform_ = U8(value)]
    [] index = k_param_osc2_pitch -> [s EXCEPT !.osc2_pitch_ = Tenths(value)]
    [] index = k_param_osc2_level -> [s EXCEPT !.osc2_level_ = Percent(value)]
    [] index = k_param_fm_amount -> [s EXCEPT !.fm_amount_ = Percent(value)]
    [] index = k_param_fm_ratio -> [s EXCEPT !.fm_ratio_ = Tenths(value)]
    [] index = k_param_osc2_decay -> [s EXCEPT !.osc2_decay_ = value]
    [] OTHER -> s

(* x * 100.f and x * 10.f converted to int32_t *)
FromPercent(x) == (x * 100) \div Milli

FromTenths(x) == (x * 10) \div Milli

getParameterValue(s, index) ==
  CASE index = k_param_pitch -> s.pitch_
    [] index = k_param_decay -> s.decay_
    [] index = k_param_body_level -> FromPercent(s.body_level_)
    [] index = k_param_drive -> FromPercent(s.drive_)
    [] index = k_param_attack -> s.attack_
    [] index = k_param_release -> s.release_
    [] index = k_param_pitch_curve -> FromPercent(s.pitch_curve_)
    [] index = k_param_click_level -> FromPercent(s.click_level_)
    [] index = k_param_click_freq -> s.click_freq_
    [] index = k_param_click_decay -> s.click_decay_
    [] index = k_param_click_tone -> FromPercent(s.click_tone_)
    [] index = k_param_filter_enabled -> IF s.filter_enabled_ THEN 1 ELSE 0
    [] index = k_param_filter_cutoff -> FromPercent(s.filter_cutoff_)
    [] index = k_param_filter_resonance -> FromPercent(s.filter_resonance_)
    [] index = k_param_filter_mode -> IF s.filter_mode_24db_ THEN 1 ELSE 0
    [] index = k_param_osc2_enabled -> s.osc2_enabled_
    [] index = k_param_osc2_waveform -> s.osc2_waveform_
    [] index = k_param_osc2_pitch -> FromTenths(s.osc2_pitch_)
    [] index = k_param_osc2_level -> FromPercent(s.osc2_level_)
    [] index = k_param_fm_amount -> FromPercent(s.fm_amount_)
    [] index = k_param_fm_ratio -> FromTenths(s.fm_ratio_)
    [] index = k_param_osc2_decay -> s.osc2_decay_
    [] OTHER -> 0

Placeholder == "---"

getParameterStrValue(index, value) ==
  IF index = k_param_osc2_waveform /\ U8(value) < k_num_waves
  THEN s_waveform_names[U8(value) + 1]
  ELSE Placeholder

(*------------------------------ process --------------------------------*)

(* an attack that enters Decay without clamping the envelope to 1 *)
EnvelopeSwitch_NoAttackClamp(s) ==
  CASE s.envelope_state_ = k_state_attack ->
         LET e == s.envelope_ + EnvStep(s.attack_)
         IN  IF e >= EnvOne
             THEN [s EXCEPT !.envelope_ = e, !.envelope_state_ = k_state_decay]
             ELSE [s EXCEPT !.envelope_ = e]
    [] s.envelope_state_ \in {k_state_decay, k_state_release} ->
         LET e == s.envelope_ - EnvStep(s.release_)
         IN  IF e <= 0
             THEN [s EXCEPT !.envelope_ = 0, !.envelope_state_ = k_state_off]
             ELSE [s EXCEPT !.envelope_ = e]
    [] OTHER -> s

(* a decay that clamps the envelope at 0 but never leaves the Decay phase *)
EnvelopeSwitch_DecayNeverIdles(s) ==
  CASE s.envelope_state_ = k_state_attack ->
         LET e == s.envelope_ + EnvStep(s.attack_)
         IN  IF e >= EnvOne
             THEN [s EXCEPT !.envelope_ = EnvOne, !.envelope_state_ = k_state_decay]
             ELSE [s EXCEPT !.envelope_ = e]
    [] s.envelope_state_ = k_state_decay ->
         LET e == s.envelope_ - EnvStep(s.release_)
         IN  IF e <= 0 THEN [s EXCEPT !.envelope_ = 0]
             ELSE [s EXCEPT !.envelope_ = e]
    [] s.envelope_state_ = k_state_release ->
         LET e == s.envelope_ - EnvStep(s.release_)
         IN  IF e <= 0
             THEN [s EXCEPT !.envelope_ = 0, !.envelope_state_ = k_state_off]
             ELSE [s EXCEPT !.envelope_ = e]
    [] OTHER -> s

(* switch (envelope_state_): the amplitude envelope and its phase *)
EnvelopeSwitch(s) ==
  CASE s.envelope_state_ = k_state_attack ->
         LET e == s.envelope_ + EnvStep(s.attack_)
         IN  IF e >= EnvOne
             THEN [s EXCEPT !.envelope_ = EnvOne, !.envelope_state_ = k_state_decay]
             ELSE [s EXCEPT !.envelope_ = e]
    [] s.envelope_state_ = k_state_decay ->
         LET e == s.envelope_ - EnvStep(s.release_)
         IN  IF e <= 0
             THEN [s EXCEPT !.envelope_ = 0, !.envelope_state_ = k_state_off]
             ELSE [s EXCEPT !.envelope_ = e]
    [] s.envelope_state_ = k_state_release ->
         LET e == s.envelope_ - EnvStep(s.release_)
         IN  IF e <= 0
             THEN [s EXCEPT !.envelope_ = 0, !.envelope_state_ = k_state_off]
             ELSE [s EXCEPT !.envelope_ = e]
    [] OTHER -> s

(* x -= 1.f / (ms / 1000.f * k_samplerate); if (x < 0.f) x = 0.f; *)
DecayTracker(x, ms) ==
  LET y == x - EnvStep(ms)
  IN  IF y < 0 THEN 0 ELSE y

(* the pitch, osc2 and click envelopes *)
AuxEnvelopes(s) ==
  IF s.envelope_state_ # k_state_off
  THEN [s EXCEPT !.pitch_envelope_ = DecayTracker(@, s.decay_),
                 !.osc2_envelope_ = DecayTracker(@, s.osc2_decay_),
                 !.click_envelope_ = DecayTracker(@, s.click_decay_)]
  ELSE s

(* pitch_ * (1.f - pitch_envelope_ * pitch_curve_), in 1/Milli Hz *)
CurrentPitch(s) ==
  s.pitch_ * (Milli - FMul(ToMilli(s.pitch_envelope_), s.pitch_curve_))

(* current_pitch * osc2_pitch_, in 1/Milli Hz *)
Freq2(s) == FMul(CurrentPitch(s), s.osc2_pitch_)

(* the frequency-modulation offset, in 1/Milli Hz *)
FmMod(s) ==
  IF s.osc2_enabled_ # 0 /\ s.fm_amount_ > 0
  THEN FMul(FMul(waveformSine(s.phase2_), s.fm_amount_),
            ToMilli(s.osc2_envelope_)) * 100
  ELSE 0

(* phase += f / k_samplerate; if (phase >= 1.f) phase -= 1.f; *)
Advance(phase, f) ==
  LET q == phase + f * (EnvOne \div (k_samplerate * Milli))
  IN  IF q >= EnvOne THEN q - EnvOne ELSE q

Oscillators(s) ==
  [s EXCEPT !.phase1_ = Advance(@, CurrentPitch(s) + FmMod(s)),
            !.phase2_ = Advance(@, (Freq2(s) \div Milli) * s.fm_ratio_),
            !.click_phase_ = Advance(@, s.click_freq_ * Milli)]

(* the secondary oscillator's output; r is the value std::rand returns *)
Osc2Out(s, r) ==
  IF s.osc2_enabled_ # 0
  THEN LET w == CASE s.osc2_waveform_ = k_wave_sine -> waveformSine(s.phase2_)
                  [] s.osc2_waveform_ = k_wave_saw -> waveformSaw(s.phase2_)
                  [] s.osc2_waveform_ = k_wave_triangle ->
                       waveformTriangle(s.phase2_)
                  [] s.osc2_waveform_ = k_wave_pulse ->
                       waveformPulse(s.phase2_, s.pulse_width_)
                  [] s.osc2_waveform_ = k_wave_noise -> waveformNoise(r)
                  [] OTHER -> waveformSine(s.phase2_)
       IN  FMul(w, FMul(s.osc2_level_, ToMilli(s.osc2_envelope_)))
  ELSE 0

ClickActive(s) == s.envelope_state_ # k_state_off /\ s.click_envelope_ > 0

(* noise * (1.0f - click_tone_) + tonal * click_tone_ *)
ClickSource(s, r) ==
  FMul(waveformNoise(r), Milli - s.click_tone_)
    + FMul(waveformSine(s.click_phase_), s.click_tone_)

(* hp_click * click_level_ * click_envelope_ * 3.0f *)
Click(s, r) ==
  IF ClickActive(s)
  THEN LET hp_click == ClickSource(s, r) - FMul(s.last_noise_, 700)
       IN  FMul(FMul(hp_click, s.click_level_), ToMilli(s.click_envelope_)) * 3
  ELSE 0

(* soft clipping *)
Drive(s, x) ==
  IF s.drive_ > 0
  THEN FMul(Tanh(FMul(x, Milli + s.drive_ * 4)),
            FDiv(Milli, Milli + FMul(s.drive_, 1500)))
  ELSE x

(* the resonant low-pass: the new filter_state_ for the input x *)
FilterStages(s, x) ==
  LET cutoff == FMul(s.filter_cutoff_, 900) + 100
      resonance == FMul(s.filter_resonance_, 980)
      f == FMul(cutoff, 1160)
      ff == FMul(f, f)
      st == s.filter_state_
  IN  IF s.filter_mode_24db_
      THEN LET fb == FMul(resonance * 4, Milli - FMul(150, ff))
               input == FMul(x - FMul(st[4], fb), FMul(350, FMul(ff, ff)))
               s0 == input + FMul(300, st[1])
               s1 == s0 + FMul(300, st[2])
               s2 == s1 + FMul(300, st[3])
               s3 == s2 + FMul(300, st[4])
           IN  <<s0, s1, s2, s3>>
      ELSE LET fb == FMul(FMul(resonance, 2500), Milli - FMul(200, ff))
               input == FMul(x - FMul(st[2], fb), FMul(350, ff))
               s0 == input + FMul(300, st[1])
               s1 == s0 + FMul(300, st[2])
           IN  <<s0, s1, st[3], st[4]>>

(* a limiter without its lower bound *)
HardLimit_UpperOnly(x) == IF x > Milli THEN Milli ELSE x

(* if (out > 1.0f) out = 1.0f; if (out < -1.0f) out = -1.0f; *)
HardLimit(x) ==
  IF x > Milli THEN Milli ELSE IF x < -Milli THEN -Milli ELSE x

(* out *= 1.3f; out *= envelope_ * current_velocity_; before the limiter *)
OutputGain(s, x) ==
  FMul(FMul(x, 1300), FMul(ToMilli(s.envelope_), s.current_velocity_))

(* One call of process(): the engine after the call, the sample it        *)
(* returns, and that sample before the hard limiter.  r2 is what std::rand *)
(* returns to the secondary oscillator, rc what it returns to the click    *)
(* generator.                                                              *)
process(s, r2, rc) ==
  LET a == Oscillators(AuxEnvelopes(EnvelopeSwitch(s)))
      body == FMul(waveformSine(a.phase1_), a.body_level_)
      mixed == Drive(a, body + Osc2Out(a, r2) + Click(a, rc))
      b == IF ClickActive(a) THEN [a EXCEPT !.last_noise_ = ClickSource(a, rc)]
           ELSE a
      c == IF a.filter_enabled_
           THEN [b EXCEPT !.filter_state_ = FilterStages(a, mixed)]
           ELSE b
      filtered == IF a.filter_enabled_
                  THEN (IF a.filter_mode_24db_ THEN c.filter_state_[4]
                        ELSE c.filter_state_[2])
                  ELSE mixed
  IN  [state |-> c,
       sample |-> HardLimit(OutputGain(c, filtered)),
       unlimited |-> OutputGain(c, filtered)]

(*------------------------------- bounds ---------------------------------*)

(* Spec: calls of process, setParameter and LoadPreset *)
MaxSamples == 2
MaxSets == 1
MaxLoads == 1

(* SpecPreset: calls of LoadPreset and setParameter *)
MaxPresetLoads == 3
MaxPresetSets == 1

(* SpecRender: frames rendered *)
MaxFrames == 3

(* SpecNote: frames rendered, and the last frame before which a note starts *)
MaxRun == 580
LastNoteOn == 0

(* values std::rand returns: the extremes of (rand() & 0xFFFF) *)
RandValues == {0, 131071}

NoteInputs == {60}
NoteOffInputs == {0, 60, NoteWildcard}
VelocityInputs == {127}
PresetInputs == {k_preset_sub, 5}

(* <<index, value>> pairs passed to setParameter, inside the ranges of the *)
(* unit header, and the index past the last one.                           *)
SetInputs ==
  {<<k_param_attack, 0>>, <<22, 1>>}

(*------------------------------- actions --------------------------------*)

Called(op, a, b) == [op |-> op, a |-> a, b |-> b]

NoQuery == [index |-> 0, value |-> 0, result |-> ""]

Init ==
  /\ synth = Synth
  /\ out = 0
  /\ call = Called("Synth", 0, 0)
  /\ samples = 0
  /\ sets = 0
  /\ loads = <<>>
  /\ query = NoQuery
  /\ twin = Synth

ResetCall ==
  /\ synth' = reset(synth)
  /\ call' = Called("Reset", 0, 0)
  /\ UNCHANGED <<out, samples, sets, loads, query, twin>>

setParameterCall(index, value) ==
  /\ synth' = setParameter(synth, index, value)
  /\ call' = Called("setParameter", index, value)
  /\ sets' = sets + 1
  /\ UNCHANGED <<out, samples, loads, query, twin>>

LoadPresetCall(index) ==
  /\ synth' = LoadPreset(synth, index)
  /\ call' = Called("LoadPreset", index, 0)
  /\ loads' = Append(loads, index)
  /\ UNCHANGED <<out, samples, sets, query, twin>>

NoteOnCall(note, velocity) ==
  /\ synth' = NoteOn(synth, note, velocity)
  /\ call' = Called("NoteOn", note, velocity)
  /\ UNCHANGED <<out, samples, sets, loads, query, twin>>

NoteOffCall(note) ==
  /\ synth' = NoteOff(synth, note)
  /\ call' = Called("NoteOff", note, 0)
  /\ UNCHANGED <<out, samples, sets, loads, query, twin>>

GateOnCall(velocity) ==
  /\ synth' = GateOn(synth, velocity)
  /\ call' = Called("GateOn", velocity, 0)
  /\ UNCHANGED <<out, samples, sets, loads, query, twin>>

GateOffCall ==
  /\ synth' = GateOff(synth)
  /\ call' = Called("GateOff", 0, 0)
  /\ UNCHANGED <<out, samples, sets, loads, query, twin>>

AllNoteOffCall ==
  /\ synth' = AllNoteOff(synth)
  /\ call' = Called("AllNoteOff", 0, 0)
  /\ UNCHANGED <<out, samples, sets, loads, query, twin>>

(* process() calls waveformNoise for the secondary oscillator only when it *)
(* is enabled with the noise waveform                                      *)
UsesOsc2Noise(s) == s.osc2_enabled_ # 0 /\ s.osc2_waveform_ = k_wave_noise

(* what std::rand returns to a call that is made; one value for no call *)
RandDraws(made) == IF made THEN RandValues ELSE {0}

(* One frame of Render: process() and the sample written to both channels. *)
(* call records the sample before the limiter and the phase before the    *)
(* frame.                                                                  *)
Render ==
  \E r2 \in RandDraws(UsesOsc2Noise(synth)),
     rc \in RandDraws(ClickActive(AuxEnvelopes(EnvelopeSwitch(synth)))) :
    LET p == process(synth, r2, rc)
    IN  /\ synth' = p.state
        /\ out' = p.sample
        /\ call' = Called("Render", p.unlimited, synth.envelope_state_)
        /\ samples' = samples + 1
        /\ UNCHANGED <<sets, loads, query, twin>>

Next ==
  \/ ResetCall
  \/ \E in \in SetInputs : sets < MaxSets /\ setParameterCall(in[1], in[2])
  \/ \E index \in PresetInputs : Len(loads) < MaxLoads /\ LoadPresetCall(index)
  \/ \E note \in NoteInputs, velocity \in VelocityInputs :
       NoteOnCall(note, velocity)
  \/ \E note \in NoteOffInputs : NoteOffCall(note)
  \/ \E velocity \in VelocityInputs : GateOnCall(velocity)
  \/ GateOffCall
  \/ AllNoteOffCall
  \/ samples < MaxSamples /\ Render

Spec == Init /\ [][Next]_vars

(*------------------------- claims checked under Spec --------------------*)

IsNoteOn == call.op \in {"NoteOn", "GateOn"}

(* C3: immediately after NoteOn(note, velocity) (or GateOn, which is       *)
(* NoteOn(0xFF, velocity)), from any prior state, the amplitude envelope   *)
(* is 0, the pitch, osc2 and click envelopes are 1, the four filter stages *)
(* and the click history sample are 0, the phase is Attack and             *)
(* current_note is the note.                                               *)
C3_NoteOnResets ==
  IsNoteOn =>
    /\ synth.envelope_ = 0
    /\ synth.pitch_envelope_ = EnvOne
    /\ synth.osc2_envelope_ = EnvOne
    /\ synth.click_envelope_ = EnvOne
    /\ synth.filter_state_ = <<0, 0, 0, 0>>
    /\ synth.last_noise_ = 0
    /\ synth.envelope_state_ = k_state_attack
    /\ synth.current_note_ = (IF call.op = "NoteOn" THEN call.a ELSE NoteWildcard)

(* a NoteOn that retriggers a voice which has already produced sound *)
C3_Witness ==
  /\ call.op = "NoteOn"
  /\ samples > 0
  /\ out # 0
  /\ synth.phase1_ > 0

(* C5: NoteOff(n) with n neither current_note nor 0xFF changes nothing, in *)
(* any engine state.                                                       *)
C5_NoteOffOtherNoop ==
  [][(call'.op = "NoteOff" /\ call'.a # synth.current_note_
        /\ call'.a # NoteWildcard)
       => (synth' = synth /\ out' = out)]_vars

(* a non-matching NoteOff received while the voice sounds *)
C5_Witness ==
  /\ call.op = "NoteOff"
  /\ call.a # synth.current_note_
  /\ call.a # NoteWildcard
  /\ synth.envelope_state_ \in {k_state_attack, k_state_decay}
  /\ synth.envelope_ > 0

(* C6: once the phase is Idle it stays Idle until the next NoteOn/GateOn,  *)
(* and the phase becomes Release only from Attack or Decay.                *)
C6_IdleUntilTrigger ==
  [][/\ (synth.envelope_state_ = k_state_off /\ ~IsNoteOn')
          => synth'.envelope_state_ = k_state_off
     /\ (synth'.envelope_state_ = k_state_release
          /\ synth.envelope_state_ # k_state_release)
          => synth.envelope_state_ \in {k_state_attack, k_state_decay}]_vars

(* C8: LoadPreset with an index that is none of the 5 presets changes no   *)
(* engine state, the index getPresetIndex reports included.                *)
C8_UnknownPresetIgnored ==
  [][(call'.op = "LoadPreset" /\ call'.a >= 5)
       => (synth' = synth
           /\ getPresetIndex(synth') = getPresetIndex(synth))]_vars

ParamIndices == 0 .. 21

VoiceZero(s) ==
  /\ s.phase1_ = 0 /\ s.phase2_ = 0 /\ s.click_phase_ = 0
  /\ s.envelope_ = 0 /\ s.pitch_envelope_ = 0
  /\ s.osc2_envelope_ = 0 /\ s.click_envelope_ = 0
  /\ s.envelope_state_ = k_state_off
  /\ s.filter_state_ = <<0, 0, 0, 0>> /\ s.last_noise_ = 0
  /\ s.current_note_ = 0 /\ s.current_velocity_ = 0

(* C10: Reset() re-zeros the Voice State and getParameterValue returns the *)
(* same value before and after it for each of the 22 parameter indices.    *)
C10_ResetKeepsParameters ==
  [][call'.op = "Reset"
       => /\ VoiceZero(synth')
          /\ \A i \in ParamIndices :
               getParameterValue(synth', i) = getParameterValue(synth, i)]_vars

(*------------------------------ SpecPreset ------------------------------*)

PresetLoadInputs == 0 .. 5

(* one value for each parameter index, inside the header's range and      *)
(* assigned by no preset                                                   *)
PresetSetInputs ==
  {<<k_param_pitch, 100>>, <<k_param_decay, 400>>, <<k_param_body_level, 10>>,
   <<k_param_drive, 90>>, <<k_param_attack, 40>>, <<k_param_release, 900>>,
   <<k_param_pitch_curve, 10>>, <<k_param_click_level, 10>>,
   <<k_param_click_freq, 380>>, <<k_param_click_decay, 90>>,
   <<k_param_click_tone, 10>>, <<k_param_filter_enabled, 1>>,
   <<k_param_filter_cutoff, 10>>, <<k_param_filter_resonance, 90>>,
   <<k_param_filter_mode, 1>>, <<k_param_osc2_enabled, 1>>,
   <<k_param_osc2_waveform, k_wave_triangle>>, <<k_param_osc2_pitch, 55>>,
   <<k_param_osc2_level, 10>>, <<k_param_fm_amount, 30>>,
   <<k_param_fm_ratio, 45>>, <<k_param_osc2_decay, 450>>}

NextPreset ==
  \/ \E index \in PresetLoadInputs :
       Len(loads) < MaxPresetLoads /\ LoadPresetCall(index)
  \/ \E in \in PresetSetInputs :
       sets < MaxPresetSets /\ setParameterCall(in[1], in[2])
  \/ ResetCall

SpecPreset == Init /\ [][NextPreset]_vars

(* the members of Synth that the 22 parameter indices address *)
ParamFields ==
  {"pitch_", "decay_", "body_level_", "drive_", "attack_", "release_",
   "pitch_curve_", "click_level_", "click_freq_", "click_decay_",
   "click_tone_", "filter_enabled_", "filter_cutoff_", "filter_resonance_",
   "filter_mode_24db_", "osc2_enabled_", "osc2_waveform_", "osc2_pitch_",
   "osc2_level_", "fm_amount_", "fm_ratio_", "osc2_decay_"}

SameParameters(s, t) == \A f \in ParamFields : s[f] = t[f]

(* C7: for P in 0..4 the Parameter Set after LoadPreset(P) depends on P    *)
(* alone: it is the one LoadPreset(P) gives a freshly constructed engine,  *)
(* whatever was loaded or set before (P; P and P; Q; P included).          *)
C7_PresetDependsOnIndexOnly ==
  (call.op = "LoadPreset" /\ call.a \in 0 .. 4)
    => SameParameters(synth, LoadPreset(Synth, call.a))

(* P; Q; setParameter; P, with a parameter set that P must overwrite *)
C7_Witness ==
  /\ call.op = "LoadPreset"
  /\ Len(loads) = 3
  /\ loads[1] = loads[3]
  /\ loads[2] # loads[1]
  /\ loads[1] \in 0 .. 4
  /\ loads[2] \in 0 .. 4
  /\ sets = 1

(*-------------------------------- SpecStr -------------------------------*)

StrIndexInputs == {0, 15, k_param_osc2_waveform, 17, 21, 22, 255}

StrValueInputs ==
  (-260 .. -250) \cup (-5 .. 10) \cup (250 .. 262)
    \cup {-2147483647, 2147483647}

getParameterStrValueCall(index, value) ==
  /\ query' = [index |-> index, value |-> value,
               result |-> getParameterStrValue(index, value)]
  /\ call' = Called("getParameterStrValue", index, value)
  /\ UNCHANGED <<synth, out, samples, sets, loads, twin>>

NextStr ==
  \E index \in StrIndexInputs, value \in StrValueInputs :
    getParameterStrValueCall(index, value)

SpecStr == Init /\ [][NextStr]_vars

(* C9: getParameterStrValue(waveform index, v) is the v-th waveform name   *)
(* exactly when v is in 0..4 and the placeholder for every other v; for    *)
(* every other index it is the placeholder.                                *)
C9_WaveformNames ==
  call.op = "getParameterStrValue" =>
    query.result =
      (IF query.index = k_param_osc2_waveform /\ query.value \in 0 .. 4
       THEN s_waveform_names[query.value + 1]
       ELSE Placeholder)

(*------------------------------- SpecRender -----------------------------*)

RECURSIVE ApplySets(_, _)
(* setParameter for each <<index, value>> of the sequence, in order *)
ApplySets(s, seq) ==
  IF seq = <<>> THEN s
  ELSE ApplySets(setParameter(s, Head(seq)[1], Head(seq)[2]), Tail(seq))

(* setParameter sequences, every value inside the header's range *)
RenderSetInputs ==
  {<<>>,
   <<<<k_param_attack, 0>>, <<k_param_drive, 0>>>>,
   <<<<k_param_attack, 0>>, <<k_param_drive, 0>>,
     <<k_param_click_level, 100>>, <<k_param_click_tone, 0>>>>,
   <<<<k_param_attack, 0>>, <<k_param_drive, 0>>,
     <<k_param_filter_enabled, 1>>, <<k_param_filter_cutoff, 100>>,
     <<k_param_filter_resonance, 100>>>>,
   <<<<k_param_attack, 0>>, <<k_param_drive, 100>>,
     <<k_param_filter_enabled, 1>>, <<k_param_filter_mode, 1>>,
     <<k_param_filter_cutoff, 100>>, <<k_param_filter_resonance, 100>>>>}

(* the engine as constructed or after a preset load, then the sets *)
RenderConfigs ==
  {ApplySets(b, seq) :
     b \in {Synth} \cup {LoadPreset(Synth, index) : index \in 0 .. 4},
     seq \in RenderSetInputs}

InitRender ==
  /\ synth \in RenderConfigs
  /\ out = 0
  /\ call = Called("Synth", 0, 0)
  /\ samples = 0
  /\ sets = 0
  /\ loads = <<>>
  /\ query = NoQuery
  /\ twin = Synth

NextRender ==
  \/ \E note \in NoteInputs, velocity \in VelocityInputs :
       NoteOnCall(note, velocity)
  \/ \E note \in NoteOffInputs : NoteOffCall(note)
  \/ samples < MaxFrames /\ Render

SpecRender == InitRender /\ [][NextRender]_vars

(* C1: every sample process returns (Render writes) is in [-1.0, 1.0] *)
C1_SampleInRange == out >= -Milli /\ out <= Milli

(* a frame whose sample the limiter had to bring down to 1.0 *)
C1_Witness ==
  /\ call.op = "Render"
  /\ call.a > Milli
  /\ out = Milli

(* a frame whose sample the limiter had to bring up to -1.0 *)
C1_WitnessLow ==
  /\ call.op = "Render"
  /\ call.a < -Milli
  /\ out = -Milli

(*-------------------------------- SpecNote ------------------------------*)

(* <<attack, release>> in ms, inside the header's ranges: an attack of no  *)
(* time and one of 48 frames, a release that reaches 0 exactly and one     *)
(* that passes it                                                          *)
NoteTimes == {<<0, 10>>, <<1, 11>>}
NoteNoteOffInputs == {60, NoteWildcard}

(* the constructed engine with the two times set and a purely tonal click, *)
(* so that the samples of these runs do not depend on std::rand            *)
NoteConfigs ==
  {ApplySets(Synth, <<<<k_param_attack, t[1]>>, <<k_param_release, t[2]>>,
                      <<k_param_click_tone, 100>>>>) : t \in NoteTimes}

InitNote ==
  /\ synth \in NoteConfigs
  /\ out = 0
  /\ call = Called("Synth", 0, 0)
  /\ samples = 0
  /\ sets = 0
  /\ loads = <<>>
  /\ query = NoQuery
  /\ twin = Synth

NextNote ==
  \/ \E note \in NoteInputs, velocity \in VelocityInputs :
       samples <= LastNoteOn /\ NoteOnCall(note, velocity)
  \/ \E note \in NoteNoteOffInputs : NoteOffCall(note)
  \/ samples < MaxRun /\ Render

SpecNote == InitNote /\ [][NextNote]_vars

Frame == samples' = samples + 1

(* C2: for valid attack and release times the amplitude envelope does not  *)
(* decrease from one sample to the next in Attack and is exactly 1.0 when  *)
(* Attack gives way to Decay, does not increase in Decay or Release and is *)
(* exactly 0.0 when they give way to Idle, and is in [0,1] after every     *)
(* process call.                                                           *)
C2_EnvelopeShape ==
  [][Frame =>
       /\ synth.envelope_state_ = k_state_attack =>
            /\ synth'.envelope_ >= synth.envelope_
            /\ synth'.envelope_state_ \in {k_state_attack, k_state_decay}
            /\ synth'.envelope_state_ = k_state_decay
                 => synth'.envelope_ = EnvOne
       /\ synth.envelope_state_ \in {k_state_decay, k_state_release} =>
            /\ synth'.envelope_ <= synth.envelope_
            /\ synth'.envelope_state_ \in {synth.envelope_state_, k_state_off}
            /\ synth'.envelope_state_ = k_state_off => synth'.envelope_ = 0
       /\ synth'.envelope_ >= 0
       /\ synth'.envelope_ <= EnvOne]_vars

(* the frame in which Decay, entered from an Attack of several frames,     *)
(* ends in Idle                                                            *)
C2_Witness ==
  /\ call.op = "Render"
  /\ call.b = k_state_decay
  /\ synth.envelope_state_ = k_state_off
  /\ synth.envelope_ = 0
  /\ synth.attack_ > 0

Matches(note, s) == note = s.current_note_ \/ note = NoteWildcard

(* C4: NoteOff with the sounding note or 0xFF in Attack or Decay sets the  *)
(* phase to Release; every process call in Release makes the amplitude     *)
(* envelope strictly smaller while it is above 0, and the phase is Idle    *)
(* exactly when the envelope has come to 0 (at once when it was 0).        *)
C4_ReleaseFalls ==
  [][/\ (call'.op = "NoteOff" /\ Matches(call'.a, synth)
          /\ synth.envelope_state_ \in {k_state_attack, k_state_decay})
          => /\ synth'.envelope_state_ = k_state_release
             /\ synth'.envelope_ = synth.envelope_
     /\ (Frame /\ synth.envelope_state_ = k_state_release)
          => /\ synth.envelope_ > 0 => synth'.envelope_ < synth.envelope_
             /\ synth'.envelope_ >= 0
             /\ synth'.envelope_ = 0 <=> synth'.envelope_state_ = k_state_off
             /\ synth'.envelope_ > 0
                  => synth'.envelope_state_ = k_state_release]_vars

(* Release, entered by a NoteOff part-way through an attack of 48 frames,   *)
(* has just ended in Idle, before the attack could have finished           *)
C4_Witness ==
  /\ call.op = "Render"
  /\ call.b = k_state_release
  /\ synth.envelope_state_ = k_state_off
  /\ synth.envelope_ = 0
  /\ synth.pitch_envelope_ > 0
  /\ synth.pitch_envelope_ < EnvOne - 2 * EnvStep(synth.decay_)
  /\ synth.attack_ > 0
  /\ samples < 48 * synth.attack_

(*-------------------------------- SpecPitch -----------------------------*)

(* frames rendered by the two engines *)
MaxPitchFrames == 490

(* <<pitch, decay, pitch_curve>>: the defaults of the unit header and the  *)
(* regression scenario of the pitch sweep                                  *)
PitchTriples == {<<60, 150, 50>>, <<55, 130, 50>>}

(* settings of the other parameters, inside the header's ranges *)
PitchOtherSets ==
  {<<>>,
   <<<<k_param_attack, 0>>, <<k_param_release, 10>>>>,
   <<<<k_param_click_level, 100>>, <<k_param_click_decay, 1>>>>,
   <<<<k_param_filter_enabled, 1>>, <<k_param_filter_cutoff, 10>>>>}

(* the constructed engine with the secondary oscillator off, no FM, a      *)
(* tonal click, the three pitch parameters of t and the other settings     *)
PitchConfig(t, other) ==
  ApplySets(Synth,
            <<<<k_param_osc2_enabled, 0>>, <<k_param_fm_amount, 0>>,
              <<k_param_click_tone, 100>>, <<k_param_pitch, t[1]>>,
              <<k_param_decay, t[2]>>, <<k_param_pitch_curve, t[3]>>>>
              \o other)

(* two engines that agree on pitch, decay and pitch_curve *)
InitPitch ==
  /\ \E t \in PitchTriples, o1 \in PitchOtherSets, o2 \in PitchOtherSets :
       /\ synth = PitchConfig(t, o1)
       /\ twin = PitchConfig(t, o2)
  /\ out = 0
  /\ call = Called("Synth", 0, 0)
  /\ samples = 0
  /\ sets = 0
  /\ loads = <<>>
  /\ query = NoQuery

(* the same NoteOn to both engines *)
NoteOnPair(note, velocity) ==
  /\ synth' = NoteOn(synth, note, velocity)
  /\ twin' = NoteOn(twin, note, velocity)
  /\ call' = Called("NoteOnPair", note, velocity)
  /\ UNCHANGED <<out, samples, sets, loads, query>>

(* one frame of Render on both engines *)
RenderPair ==
  \E rc \in RandDraws(ClickActive(AuxEnvelopes(EnvelopeSwitch(synth)))),
     rt \in RandDraws(ClickActive(AuxEnvelopes(EnvelopeSwitch(twin)))) :
    /\ synth' = process(synth, 0, rc).state
    /\ twin' = process(twin, 0, rt).state
    /\ out' = process(synth, 0, rc).sample
    /\ call' = Called("RenderPair", 0, 0)
    /\ samples' = samples + 1
    /\ UNCHANGED <<sets, loads, query>>

NextPitch ==
  \/ \E note \in NoteInputs, velocity \in VelocityInputs :
       samples <= LastNoteOn /\ NoteOnPair(note, velocity)
  \/ samples < MaxPitchFrames /\ RenderPair

SpecPitch == InitPitch /\ [][NextPitch]_vars

(* C11: with the secondary oscillator disabled and FM amount 0, two runs   *)
(* that agree on pitch, pitch_curve and decay, differ in other parameters  *)
(* and receive the same NoteOn have the same body frequency and the same   *)
(* body phase after every frame.                                           *)
C11_PitchDependsOnThree ==
  (call.op = "RenderPair" /\ synth.current_note_ \in NoteInputs)
    => /\ CurrentPitch(synth) = CurrentPitch(twin)
       /\ synth.phase1_ = twin.phase1_

(*-------------------------------- SpecInit ------------------------------*)

(* the values Init returns; the enumerators are those of the unit API *)
k_unit_err_none == "k_unit_err_none"
k_unit_err_samplerate == "k_unit_err_samplerate"
k_unit_err_geometry == "k_unit_err_geometry"

(* an Init that resets the voice before it has checked the channel count *)
InitUnit_ResetsFirst(s, desc) ==
  IF desc.samplerate # 48000
  THEN [state |-> s, result |-> k_unit_err_samplerate]
  ELSE IF desc.output_channels # 2
  THEN [state |-> reset(s), result |-> k_unit_err_geometry]
  ELSE [state |-> initParams(reset(s)), result |-> k_unit_err_none]

(* int8_t Init(const unit_runtime_desc_t * desc): the engine after the     *)
(* call and the value returned                                             *)
InitUnit(s, desc) ==
  IF desc.samplerate # 48000
  THEN [state |-> s, result |-> k_unit_err_samplerate]
  ELSE IF desc.output_channels # 2
  THEN [state |-> s, result |-> k_unit_err_geometry]
  ELSE [state |-> initParams(reset(s)), result |-> k_unit_err_none]

(* runtime descriptors the host may pass *)
DescInputs ==
  {[samplerate |-> sr, output_channels |-> ch] :
     sr \in {44100, 48000, 96000}, ch \in {1, 2}}

InitCall(desc) ==
  /\ synth' = InitUnit(synth, desc).state
  /\ call' = Called("Init", desc, InitUnit(synth, desc).result)
  /\ UNCHANGED <<out, samples, sets, loads, query, twin>>

NextInit ==
  \/ \E desc \in DescInputs : InitCall(desc)
  \/ \E in \in SetInputs : sets < MaxSets /\ setParameterCall(in[1], in[2])
  \/ \E index \in PresetInputs : Len(loads) < MaxLoads /\ LoadPresetCall(index)
  \/ \E note \in NoteInputs, velocity \in VelocityInputs :
       NoteOnCall(note, velocity)
  \/ samples < MaxSamples /\ Render

SpecInit == Init /\ [][NextInit]_vars

(* C12: Init returns the sample-rate error when the sample rate is not     *)
(* 48000, the distinct geometry error when the rate is 48000 and the       *)
(* channel count is not 2, and success otherwise; on success the Voice     *)
(* State is reset and every parameter has its default, on a failure the    *)
(* engine is unchanged.                                                    *)
C12_InitChecksThenResets ==
  [][call'.op = "Init" =>
       /\ call'.b = (IF call'.a.samplerate # 48000 THEN k_unit_err_samplerate
                     ELSE IF call'.a.output_channels # 2
                     THEN k_unit_err_geometry
                     ELSE k_unit_err_none)
       /\ k_unit_err_samplerate # k_unit_err_geometry
       /\ call'.b = k_unit_err_none
            => /\ VoiceZero(synth')
               /\ SameParameters(synth', Synth)
               /\ \A i \in ParamIndices :
                    getParameterValue(synth', i) = getParameterValue(Synth, i)
       /\ call'.b # k_unit_err_none => synth' = synth]_vars

(* Init has refused the channel count of an engine that is sounding a note *)
(* with a preset loaded, and the engine is still in that state             *)
C12_Witness ==
  /\ call.op = "Init"
  /\ call.b = k_unit_err_geometry
  /\ synth.envelope_state_ # k_state_off
  /\ synth.preset_index_ = k_preset_sub
  /\ synth.filter_enabled_

(*------------------------------- SpecHeader -----------------------------*)

(* unit_header.params: the range and the name of each slot, slot i being   *)
(* element i + 1                                                           *)
unit_header_params ==
  <<
    [min |-> 40, max |-> 150, name |-> "PITCH"],
    [min |-> 10, max |-> 500, name |-> "DECAY"],
    [min |-> 0, max |-> 100, name |-> "BODY"],
    [min |-> 0, max |-> 100, name |-> "DRIVE"],
    [min |-> 0, max |-> 50, name |-> "ATTACK"],
    [min |-> 10, max |-> 1000, name |-> "RELEASE"],
    [min |-> 0, max |-> 100, name |-> "P.CURVE"],
    [min |-> 0, max |-> 0, name |-> ""],
    [min |-> 0, max |-> 100, name |-> "CLICK LVL"],
    [min |-> 50, max |-> 400, name |-> "CLICK FREQ"],
    [min |-> 1, max |-> 100, name |-> "CLICK DCY"],
    [min |-> 0, max |-> 100, name |-> "CLICK TONE"],
    [min |-> 0, max |-> 1, name |-> "FILTER ON"],
    [min |-> 0, max |-> 100, name |-> "CUTOFF"],
    [min |-> 0, max |-> 100, name |-> "RESONANCE"],
    [min |-> 0, max |-> 1, name |-> "24DB MODE"],
    [min |-> 0, max |-> 1, name |-> "OSC2 ON"],
    [min |-> 0, max |-> 4, name |-> "OSC2 WAVE"],
    [min |-> 5, max |-> 60, name |-> "OSC2 PITCH"],
    [min |-> 0, max |-> 100, name |-> "OSC2 LEVEL"],
    [min |-> 0, max |-> 100, name |-> "FM AMOUNT"],
    [min |-> 5, max |-> 50, name |-> "FM RATIO"],
    [min |-> 10, max |-> 500, name |-> "OSC2 DECAY"],
    [min |-> 0, max |-> 0, name |-> ""]
  >>

(* the slots the host shows and addresses: those with a name *)
NamedSlots ==
  {i \in 0 .. Len(unit_header_params) - 1 : unit_header_params[i + 1].name # ""}

(* the engine parameter a header name stands for *)
ParamOfName(name) ==
  CASE name = "PITCH" -> k_param_pitch
    [] name = "DECAY" -> k_param_decay
    [] name = "BODY" -> k_param_body_level
    [] name = "DRIVE" -> k_param_drive
    [] name = "ATTACK" -> k_param_attack
    [] name = "RELEASE" -> k_param_release
    [] name = "P.CURVE" -> k_param_pitch_curve
    [] name = "CLICK LVL" -> k_param_click_level
    [] name = "CLICK FREQ" -> k_param_click_freq
    [] name = "CLICK DCY" -> k_param_click_decay
    [] name = "CLICK TONE" -> k_param_click_tone
    [] name = "FILTER ON" -> k_param_filter_enabled
    [] name = "CUTOFF" -> k_param_filter_cutoff
    [] name = "RESONANCE" -> k_param_filter_resonance
    [] name = "24DB MODE" -> k_param_filter_mode
    [] name = "OSC2 ON" -> k_param_osc2_enabled
    [] name = "OSC2 WAVE" -> k_param_osc2_waveform
    [] name = "OSC2 PITCH" -> k_param_osc2_pitch
    [] name = "OSC2 LEVEL" -> k_param_osc2_level
    [] name = "FM AMOUNT" -> k_param_fm_amount
    [] name = "FM RATIO" -> k_param_fm_ratio
    [] name = "OSC2 DECAY" -> k_param_osc2_decay

(* calls of setParameter *)
MaxHeaderSets == 2

(* the host sets slot i to an end of the range the header gives it *)
NextHeader ==
  \E i \in NamedSlots :
    \E v \in {unit_header_params[i + 1].min, unit_header_params[i + 1].max} :
      sets < MaxHeaderSets /\ setParameterCall(i, v)

SpecHeader == Init /\ [][NextHeader]_vars

(* C13: for every named slot i of the header, setParameter(i, v) sets, and *)
(* getParameterValue(i) reads, the engine parameter the header names at    *)
(* slot i; no named slot is ignored.                                       *)
C13_HeaderIndexIsEngineIndex ==
  [][(call'.op = "setParameter" /\ call'.a \in NamedSlots)
       => LET k == ParamOfName(unit_header_params[call'.a + 1].name)
          IN  /\ getParameterValue(synth', k) = call'.b
              /\ getParameterValue(synth', call'.a) = call'.b
              /\ \A j \in ParamIndices \ {k} :
                   getParameterValue(synth', j) = getParameterValue(synth, j)]_vars

(*-------------------------------- SpecOnOff -----------------------------*)

(* the on/off parameters *)
OnOffParams == {k_param_filter_enabled, k_param_filter_mode, k_param_osc2_enabled}

(* whether process() takes the branch the on/off parameter guards *)
FeatureOn(s, index) ==
  CASE index = k_param_filter_enabled -> s.filter_enabled_
    [] index = k_param_filter_mode -> s.filter_mode_24db_
    [] index = k_param_osc2_enabled -> s.osc2_enabled_ # 0

(* int32_t values: the header's 0 and 1, their neighbours, multiples of    *)
(* 256 and their neighbours, and the extremes                              *)
OnOffValues ==
  {-2147483647, -257, -256, -255, -1, 0, 1, 2, 255, 256, 257, 512, 2147483647}

(* calls of setParameter *)
MaxOnOffSets == 2

NextOnOff ==
  \E index \in OnOffParams, value \in OnOffValues :
    sets < MaxOnOffSets /\ setParameterCall(index, value)

SpecOnOff == Init /\ [][NextOnOff]_vars

(* C14: for each on/off parameter, setParameter(index, v) turns the        *)
(* feature on for every 32-bit v > 0 and off for every v <= 0, values      *)
(* outside 0..1 such as 256 and -1 included.                               *)
C14_PositiveMeansOn ==
  [][(call'.op = "setParameter" /\ call'.a \in OnOffParams)
       => (FeatureOn(synth', call'.a) <=> call'.b > 0)]_vars

(*-------------------------------- SpecPhase -----------------------------*)

(* frames rendered *)
MaxPhaseFrames == 2500

(* the FM Kick preset, and the constructed engine with the strongest FM    *)
(* the header allows; a tonal click, so that the runs do not depend on     *)
(* std::rand                                                               *)
PhaseConfigs ==
  {ApplySets(LoadPreset(Synth, k_preset_fm_kick), <<<<k_param_click_tone, 100>>>>),
   ApplySets(Synth, <<<<k_param_click_tone, 100>>, <<k_param_fm_amount, 100>>,
                      <<k_param_pitch, 40>>, <<k_param_pitch_curve, 100>>>>),
   ApplySets(Synth, <<<<k_param_click_tone, 100>>>>)}

InitPhase ==
  /\ synth \in PhaseConfigs
  /\ out = 0
  /\ call = Called("Synth", 0, 0)
  /\ samples = 0
  /\ sets = 0
  /\ loads = <<>>
  /\ query = NoQuery
  /\ twin = Synth

NextPhase ==
  \/ \E note \in NoteInputs, velocity \in VelocityInputs :
       samples <= LastNoteOn /\ NoteOnCall(note, velocity)
  \/ samples < MaxPhaseFrames /\ Render

SpecPhase == InitPhase /\ [][NextPhase]_vars

(* C15: after every process call, with parameters inside the header's      *)
(* ranges (the FM Kick preset included), the body, secondary and click     *)
(* phase accumulators are in [0, 1).                                       *)
C15_PhasesInUnitInterval ==
  call.op = "Render"
    => \A p \in {synth.phase1_, synth.phase2_, synth.click_phase_} :
         p >= 0 /\ p < EnvOne

(*-------------------------------- SpecEnds ------------------------------*)

(* frames rendered while a note sounds: more than the longest note, 50 ms  *)
(* of attack and 1000 ms of release; and frames of silence rendered        *)
MaxEndFrames == 50500
MaxIdleFrames == 700

(* <<attack, release>> in ms: ends of the header's ranges, and a short     *)
(* note                                                                    *)
EndTimes == {<<0, 10>>, <<1, 11>>, <<50, 1000>>, <<50, 10>>}

(* the frames before which a NoteOff may arrive: at once, early and late   *)
(* in an attack, in the decay, and after a short note has ended            *)
EndNoteOffFrames == {0, 1, 30, 600}

(* Render goes on while a note sounds, and for some frames of silence *)
EndRenderGuard ==
  \/ synth.envelope_state_ # k_state_off /\ samples < MaxEndFrames
  \/ synth.envelope_state_ = k_state_off /\ samples < MaxIdleFrames

EndRender == EndRenderGuard /\ Render

EndConfigs ==
  {ApplySets(Synth, <<<<k_param_attack, t[1]>>, <<k_param_release, t[2]>>,
                      <<k_param_click_tone, 100>>>>) : t \in EndTimes}

InitEnds ==
  /\ synth \in EndConfigs
  /\ out = 0
  /\ call = Called("Synth", 0, 0)
  /\ samples = 0
  /\ sets = 0
  /\ loads = <<>>
  /\ query = NoQuery
  /\ twin = Synth

NextEnds ==
  \/ \E note \in NoteInputs, velocity \in VelocityInputs :
       samples <= LastNoteOn /\ NoteOnCall(note, velocity)
  \/ \E note \in NoteNoteOffInputs :
       samples \in EndNoteOffFrames /\ NoteOffCall(note)
  \/ EndRender

(* The host keeps calling Render.  Render is total and is the one action   *)
(* that counts a frame, so EndRender is enabled exactly when its guard     *)
(* holds and its steps are the steps that change samples.                  *)
SpecEnds ==
  InitEnds /\ [][NextEnds]_vars /\ WF_samples(EndRenderGuard /\ Frame)

(* C16: every note ends: after a NoteOn, with process called again and     *)
(* again and no further NoteOn, with or without a NoteOff, the phase       *)
(* becomes Idle with amplitude envelope 0; the phase goes from Attack to   *)
(* Decay or Release, from Decay to Release or Idle, from Release to Idle,  *)
(* and Attack is entered by a NoteOn only.                                 *)
C16_EveryNoteEnds ==
  /\ (synth.envelope_state_ # k_state_off)
       ~> (synth.envelope_state_ = k_state_off /\ synth.envelope_ = 0)
  /\ [][/\ (synth'.envelope_state_ = k_state_attack /\ ~IsNoteOn')
             => synth.envelope_state_ = k_state_attack
        /\ (synth.envelope_state_ = k_state_attack /\ ~IsNoteOn')
             => synth'.envelope_state_
                  \in {k_state_attack, k_state_decay, k_state_release}
        /\ (synth.envelope_state_ = k_state_decay /\ ~IsNoteOn')
             => synth'.envelope_state_
                  \in {k_state_decay, k_state_release, k_state_off}
        /\ (synth.envelope_state_ = k_state_release /\ ~IsNoteOn')
             => synth'.envelope_state_ \in {k_state_release, k_state_off}]_vars

(* the longest note, 50 ms of attack and 1000 ms of decay, has just ended *)
C16_Witness ==
  /\ call.op = "Render"
  /\ call.b = k_state_decay
  /\ synth.envelope_state_ = k_state_off
  /\ synth.envelope_ = 0
  /\ synth.attack_ = 50
  /\ synth.release_ = 1000
  /\ samples > 50000

====
